---- MODULE Spec2Model ----
(***************************************************************************)
(* Model of the simulation driver of kt_simul, class Metaphase of          *)
(* kt_simul/core/simul_spindle.py: the main loop simul(), the anaphase     *)
(* latch _anaphase_test(), the laser ablation _ablation() and the          *)
(* checkpoints.  The physical collaborator KinetoDynamics (self.KD) is     *)
(* outside the modelled file; its calls are modelled by their interface.   *)
(*                                                                         *)
(* Times dt, span and time_point*dt are integers.  params['t_A'] may be a  *)
(* fraction: it is held as a numerator over TADen, so that int(t_A) of     *)
(* line 345 is a real truncation.  Positions are small integers.           *)
(***************************************************************************)
EXTENDS Integers, Sequences, FiniteSets, TLC

\* ---------------------------------------------------------------- bounds
\* span (total duration) ranges over 1..MaxSpan
MaxSpan == 3
\* dt (time step) ranges over 1..MaxDt
MaxDt == 2
\* denominator of the fraction that holds params['t_A']
TADen == 2
\* the counts of an attachment state vector range over 0..MaxCount
MaxCount == 3
\* Metaphase instances 1..MaxInst are constructed, in this order
MaxInst == 2
\* a generator makes at most MaxDraws draws
MaxDraws == 2

\* ---------------------------------------------------------------- domains
\* values of params['t_A'], as numerators over TADen: 1 + 1/TADen and 2
TAVals == {TADen + 1, 2 * TADen}
\* initial cohesin spring constants
KappaVals == {3}
\* the chromosomes of the spindle and the tags of their two centromeres
Chromosomes == {1}
Tags == {"A", "B"}
\* one plug site per centromere: a plug site is named by chromosome and tag
all_plugsites == Chromosomes \X Tags
PlugStates == {-1, 0, 1}
SitePos == {-1, 1}
\* positions << spbL.pos, spbR.pos >> of the two poles
Poles == {<< -1, 1 >>, << -2, 2 >>}
\* an optional argument is the empty sequence (None) or a one-element sequence
NoneArg == << >>
Some(x) == << x >>
\* values of the arguments ablat and ablat_pos of simul()
AblatArgs == {NoneArg, Some(1), Some(2)}
AblatPosArgs == {NoneArg, Some(-2), Some(1), Some(2)}
\* the attachment state vectors given to get_attachment()
Vectors == [1 .. 4 -> 0 .. MaxCount]
\* the Metaphase instances of the process
Instances == 1 .. MaxInst
\* the seeds a new np.random.RandomState() may draw from the system
Seeds == {1, 2}

VARIABLES
    params,             \* self.KD.params: the live parameter mapping
    span,               \* paramtree.absolute_dic['span']
    num_steps,          \* self.num_steps
    anaphase,           \* self.KD.anaphase
    simulation_done,    \* self.KD.simulation_done
    spbL, spbR,         \* self.KD.spbL.pos, self.KD.spbR.pos
    plugsites,          \* per plug site: pos and plug_state
    A0_mat,             \* self.KD.A0_mat: the parameters it was computed from
    B_mat,              \* the matrix of calc_B: the kappa_c it was computed from
    report,             \* self.report
    delay,              \* self.delay
    pc,                 \* position in simul(): idle, ablation, anaphase, one_step, finish
    time_point,         \* loop variable of simul()
    ablat, ablat_pos,   \* arguments of the running simul() call
    kappa_c,            \* local kappa_c of simul(), saved at entry
    log_anaphase_onset, \* local flag of simul()
    ret,                \* what the last _anaphase_test call returned
    raised,             \* the last simul() call raised SimulationAlreadyDone
    hist,               \* calls made on the collaborator and the logger so far
    state,              \* the argument of the get_attachment() call
    label,              \* the name of what get_attachment() returned, or "none"
    RANDOM_STATE,       \* Metaphase.RANDOM_STATE, the class attribute
    prng,               \* per instance: self.prng, a generator state << seed, draws >>
    rnd                 \* per instance: how its generator was made

\* the variables of one instance's driver
driver == << params, span, num_steps, anaphase, simulation_done, spbL, spbR,
             plugsites, A0_mat, B_mat, report, delay, pc, time_point, ablat,
             ablat_pos, kappa_c, log_anaphase_onset, ret, raised, hist >>
\* the variables of the classifier and of the generators
classifier == << state, label >>
generators == << RANDOM_STATE, prng, rnd >>

vars == << params, span, num_steps, anaphase, simulation_done, spbL, spbR,
           plugsites, A0_mat, B_mat, report, delay, pc, time_point, ablat,
           ablat_pos, kappa_c, log_anaphase_onset, ret, raised, hist,
           state, label, RANDOM_STATE, prng, rnd >>

\* ---------------------------------------------------------------- helpers
\* a conversion that rounds up
int_RoundUp(num) == (num + TADen - 1) \div TADen

\* int() of a non-negative fraction num/TADen: truncation
int(num) == num \div TADen

\* KD.time_invariantA(): the matrix depends on the force and rate constants
time_invariantA(p) == << p.Fmz, p.k_a, p.k_d0 >>

\* KD.calc_B(): the matrix depends on the spring constants
calc_B(p) == p.kappa_c

\* Centromere.is_attached(): some plug site of the centromere is attached
is_attached(ch, tag) == plugsites[<< ch, tag >>].plug_state # 0

\* Chromosome.erroneous(): erroneous attachments of cen_A and of cen_B
erroneous(ch) ==
    << IF plugsites[<< ch, "A" >>].plug_state = -1 THEN 1 ELSE 0,
       IF plugsites[<< ch, "B" >>].plug_state = 1 THEN 1 ELSE 0 >>

RECURSIVE SumOver(_, _)
SumOver(f, S) ==
    IF S = {} THEN 0
    ELSE LET x == CHOOSE y \in S : TRUE IN f[x] + SumOver(f, S \ {x})

\* a checkpoint that looks at cen_A only
plug_checkpoint_OneCentromere ==
    IF params.sac = 0 THEN TRUE
    ELSE \A ch \in Chromosomes : is_attached(ch, "A")

\* Metaphase._plug_checkpoint
plug_checkpoint ==
    IF params.sac = 0 THEN TRUE
    ELSE \A ch \in Chromosomes : is_attached(ch, "A") /\ is_attached(ch, "B")

\* Metaphase._mero_checkpoint
mero_checkpoint ==
    SumOver([ch \in Chromosomes |->
                IF erroneous(ch)[1] # 0 \/ erroneous(ch)[2] # 0
                THEN erroneous(ch)[1] + erroneous(ch)[2] ELSE 0],
            Chromosomes)

\* ---------------------------------------------------------------- Init
\* no get_attachment() call is under way
NoClassification == state = [i \in 1 .. 4 |-> 0] /\ label = "none"

\* line 129: RANDOM_STATE = None, and no generator is looked at
NoGenerators ==
    /\ RANDOM_STATE = NoneArg
    /\ prng = [i \in Instances |-> NoneArg]
    /\ rnd = [i \in Instances |-> [keep |-> FALSE, start |-> NoneArg, before |-> 0]]

\* Metaphase.__init__
Init ==
    /\ NoClassification
    /\ NoGenerators
    /\ params \in [kappa_c : KappaVals, Fmz : {1}, k_a : {1}, k_d0 : {1},
                   t_A : TAVals, dt : 1 .. MaxDt, sac : {0, 1}]
    /\ span \in 1 .. MaxSpan
    /\ num_steps = span \div params.dt
    /\ anaphase = FALSE
    /\ simulation_done = FALSE
    /\ \E po \in Poles : spbL = po[1] /\ spbR = po[2]
    /\ plugsites \in [all_plugsites -> [pos : SitePos, plug_state : PlugStates]]
    /\ A0_mat = time_invariantA(params)
    /\ B_mat = calc_B(params)
    /\ report = << >>
    /\ delay = -1
    /\ pc = "idle"
    /\ time_point = 0
    /\ ablat = NoneArg
    /\ ablat_pos = NoneArg
    /\ kappa_c = 0
    /\ log_anaphase_onset = FALSE
    /\ ret = FALSE
    /\ raised = FALSE
    /\ hist = [one_step |-> << >>, calc_B |-> 0, time_invariantA |-> 0,
               set_plug_state |-> {}, warnings |-> 0, ablations |-> 0,
               onsets |-> 0, delay_writes |-> 0, kappa_zeroed |-> 0,
               pos_given |-> TRUE, kappa_entry |-> 0, finalized |-> 0,
               completed |-> 0]

\* ---------------------------------------------------------------- simul()
\* the check of line 236 left out
AlreadyDone_Never == FALSE

\* line 236: the check that a simulation was already done on this instance
AlreadyDone == simulation_done

\* a default that lies off the centre of the spindle
DefaultAblatPos_Two == 1 + 1

\* line 222: the default of the argument ablat_pos
DefaultAblatPos == 0

\* a loop that starts at time point 0
FirstTimePoint_Zero == 1 - 1

\* line 248: range(1, self.num_steps) starts at 1 ...
FirstTimePoint == 1

\* ... stops before num_steps ...
InRange(tp) == tp < num_steps

\* a loop that skips every other time point
NextTimePoint_Skip(tp) == tp + 2

\* ... and advances by one
NextTimePoint(tp) == tp + 1

\* KD.simulation_done once a run has completed
DoneAfterRun == TRUE

\* lines 236-239: a call on an instance whose simulation is done raises
SimulRaise ==
    /\ pc = "idle"
    /\ AlreadyDone
    /\ \E a \in AblatArgs, p \in AblatPosArgs :
          /\ raised' = TRUE
          /\ UNCHANGED << params, span, num_steps, anaphase, simulation_done,
                          spbL, spbR, plugsites, A0_mat, B_mat, report, delay,
                          pc, time_point, ablat, ablat_pos, kappa_c,
                          log_anaphase_onset, ret, hist >>

\* lines 236-248: entry of simul(ablat, ablat_pos) up to the loop header
Enter(a, p, given) ==
    /\ pc = "idle"
    /\ ~AlreadyDone
    /\ kappa_c' = params.kappa_c
    /\ ablat' = a
    /\ ablat_pos' = p
    /\ log_anaphase_onset' = FALSE
    /\ raised' = FALSE
    /\ hist' = [hist EXCEPT !.pos_given = given,
                            !.kappa_entry = params.kappa_c]
    /\ IF InRange(FirstTimePoint)
       THEN time_point' = FirstTimePoint /\ pc' = "ablation"
       ELSE time_point' = time_point /\ pc' = "finish"
    /\ UNCHANGED << params, span, num_steps, anaphase, simulation_done, spbL,
                    spbR, plugsites, A0_mat, B_mat, report, delay, ret >>

SimulEnter ==
    \E a \in AblatArgs :
        \/ \E p \in AblatPosArgs : Enter(a, p, TRUE)
        \/ Enter(a, Some(DefaultAblatPos), FALSE)

\* ---------------------------------------------------------------- _ablation()
\* lines 376-377: the position of the beam, spbR.pos when pos is None
BeamPos(posarg) == IF posarg = NoneArg THEN spbR ELSE posarg[1]

\* a test that forgets the left pole
InSpindle_RightOnly(pos) == pos <= spbR

\* line 378: the beam lies between the poles
InSpindle(pos) == spbL <= pos /\ pos <= spbR

\* an ablation that leaves the base detachment rate
AblatedParams_KeepKd0(p) == [p EXCEPT !.Fmz = 0, !.k_a = 0]

\* lines 381-383: the parameters an ablation zeroes
AblatedParams(p) == [p EXCEPT !.Fmz = 0, !.k_a = 0, !.k_d0 = 0]

\* comparisons that are not strict
Severed_NonStrict(site, pos) ==
    \/ pos <= plugsites[site].pos /\ plugsites[site].plug_state = -1
    \/ pos >= plugsites[site].pos /\ plugsites[site].plug_state = 1

\* lines 387-390: the plug sites an ablation at pos detaches
Severed(site, pos) ==
    \/ pos < plugsites[site].pos /\ plugsites[site].plug_state = -1
    \/ pos > plugsites[site].pos /\ plugsites[site].plug_state = 1

\* an ablation at every time point of a run that asks for one
AblationDue_Always == ablat # NoneArg

\* line 257: the ablation is due at this time point
AblationDue == ablat = Some(time_point)

\* lines 257-260 and 376-390: the ablation test of the loop body
Ablation ==
    /\ pc = "ablation"
    /\ pc' = "anaphase"
    /\ IF ~AblationDue
       THEN UNCHANGED << params, A0_mat, plugsites, hist >>
       ELSE LET pos == BeamPos(ablat_pos) IN
            IF ~InSpindle(pos)
            THEN /\ hist' = [hist EXCEPT !.warnings = @ + 1, !.ablations = @ + 1]
                 /\ UNCHANGED << params, A0_mat, plugsites >>
            ELSE /\ params' = AblatedParams(params)
                 /\ A0_mat' = time_invariantA(params')
                 /\ plugsites' =
                       [s \in all_plugsites |->
                          IF Severed(s, pos)
                          THEN [plugsites[s] EXCEPT !.plug_state = 0]
                          ELSE plugsites[s]]
                 /\ hist' = [hist EXCEPT
                       !.time_invariantA = @ + 1,
                       !.ablations = @ + 1,
                       !.set_plug_state = @ \cup
                           {<< s, 0, time_point >> : s \in
                               {x \in all_plugsites : Severed(x, pos)}}]
    /\ UNCHANGED << span, num_steps, anaphase, simulation_done, spbL, spbR,
                    B_mat, report, delay, time_point, ablat, ablat_pos,
                    kappa_c, log_anaphase_onset, ret, raised >>

\* ---------------------------------------------------------------- _anaphase_test()
\* a test that ignores the latch
Latched_Never == FALSE

\* lines 348-349: the latch short-circuits the test
Latched == anaphase

\* an onset that leaves KD.anaphase as it was
OnsetLatch_Forgotten == anaphase

\* line 360: the value onset gives KD.anaphase
OnsetLatch == TRUE

\* a gate that forgets the checkpoint
OnsetGate_NoCheckpoint(t) == t >= int(params.t_A)

\* line 350: onset needs the time threshold and the checkpoint
OnsetGate(t) == t >= int(params.t_A) /\ plug_checkpoint

\* a report line whatever the merotelic count
MeroReport_Always(rep) ==
    Append(rep, [kind |-> "merotelic", val |-> mero_checkpoint])

\* lines 355-359: the report after the merotelic checkpoint
MeroReport(rep) ==
    IF mero_checkpoint # 0
    THEN Append(rep, [kind |-> "merotelic", val |-> mero_checkpoint])
    ELSE rep

\* lines 263-269 and 345-362: the anaphase test of the loop body
AnaphaseTest ==
    /\ pc = "anaphase"
    /\ pc' = "one_step"
    /\ LET t == time_point * params.dt IN
       IF Latched
       THEN /\ ret' = TRUE
            /\ UNCHANGED << delay, params, B_mat, report, anaphase, hist >>
       ELSE IF OnsetGate(t)
       THEN /\ delay' = t - int(params.t_A)
            /\ params' = [params EXCEPT !.kappa_c = 0]
            /\ B_mat' = calc_B(params')
            /\ report' = MeroReport(report)
            /\ anaphase' = OnsetLatch
            /\ ret' = TRUE
            /\ hist' = [hist EXCEPT !.calc_B = @ + 1, !.onsets = @ + 1,
                                    !.delay_writes = @ + 1,
                                    !.kappa_zeroed = @ + 1]
       ELSE /\ ret' = FALSE
            /\ UNCHANGED << delay, params, B_mat, report, anaphase, hist >>
    /\ log_anaphase_onset' = (log_anaphase_onset \/ ret')
    /\ UNCHANGED << span, num_steps, simulation_done, spbL, spbR, plugsites,
                    A0_mat, time_point, ablat, ablat_pos, kappa_c, raised >>

\* ---------------------------------------------------------------- one_step
\* KD.one_step(time_point): the collaborator moves the poles and the plug
\* sites and attaches or detaches plug sites
KD_one_step(ps, l, r) ==
    /\ ps \in [all_plugsites -> [pos : SitePos, plug_state : PlugStates]]
    /\ << l, r >> \in Poles

\* line 271 and the loop header, line 248
OneStep ==
    /\ pc = "one_step"
    /\ hist' = [hist EXCEPT !.one_step = Append(@, time_point)]
    /\ \E ps \in [all_plugsites -> [pos : SitePos, plug_state : PlugStates]],
          po \in Poles :
          /\ KD_one_step(ps, po[1], po[2])
          /\ plugsites' = ps
          /\ spbL' = po[1]
          /\ spbR' = po[2]
    /\ IF InRange(NextTimePoint(time_point))
       THEN time_point' = NextTimePoint(time_point) /\ pc' = "ablation"
       ELSE time_point' = time_point /\ pc' = "finish"
    /\ UNCHANGED << params, span, num_steps, anaphase, simulation_done,
                    A0_mat, B_mat, report, delay, ablat, ablat_pos, kappa_c,
                    log_anaphase_onset, ret, raised >>

\* ---------------------------------------------------------------- after the loop
\* an end of run that writes nothing back
RestoredKappa_Live == params.kappa_c

\* line 280: the value written back to params['kappa_c']
RestoredKappa == kappa_c

\* lines 275-288: the end of simul()
Finish ==
    /\ pc = "finish"
    /\ pc' = "idle"
    /\ params' = [params EXCEPT !.kappa_c = RestoredKappa]
    /\ report' = Append(report, [kind |-> "delay", val |-> delay])
    /\ simulation_done' = DoneAfterRun
    /\ hist' = [hist EXCEPT !.finalized = @ + Cardinality(Chromosomes),
                            !.completed = @ + 1]
    /\ UNCHANGED << span, num_steps, anaphase, spbL, spbR, plugsites, A0_mat,
                    B_mat, delay, time_point, ablat, ablat_pos, kappa_c,
                    log_anaphase_onset, ret, raised >>

Next ==
    \/ SimulEnter /\ UNCHANGED << classifier, generators >>
    \/ SimulRaise /\ UNCHANGED << classifier, generators >>
    \/ Ablation /\ UNCHANGED << classifier, generators >>
    \/ AnaphaseTest /\ UNCHANGED << classifier, generators >>
    \/ OneStep /\ UNCHANGED << classifier, generators >>
    \/ Finish /\ UNCHANGED << classifier, generators >>

Spec == Init /\ [][Next]_vars

\* an instance that is constructed and does not run
Constructed ==
    /\ params = [kappa_c |-> 3, Fmz |-> 1, k_a |-> 1, k_d0 |-> 1,
                 t_A |-> 2 * TADen, dt |-> 1, sac |-> 1]
    /\ span = 1
    /\ num_steps = span \div params.dt
    /\ anaphase = FALSE
    /\ simulation_done = FALSE
    /\ spbL = -1 /\ spbR = 1
    /\ plugsites = [s \in all_plugsites |-> [pos |-> 1, plug_state |-> 0]]
    /\ A0_mat = time_invariantA(params)
    /\ B_mat = calc_B(params)
    /\ report = << >>
    /\ delay = -1
    /\ pc = "idle"
    /\ time_point = 0
    /\ ablat = NoneArg
    /\ ablat_pos = NoneArg
    /\ kappa_c = 0
    /\ log_anaphase_onset = FALSE
    /\ ret = FALSE
    /\ raised = FALSE
    /\ hist = [one_step |-> << >>, calc_B |-> 0, time_invariantA |-> 0,
               set_plug_state |-> {}, warnings |-> 0, ablations |-> 0,
               onsets |-> 0, delay_writes |-> 0, kappa_zeroed |-> 0,
               pos_given |-> TRUE, kappa_entry |-> 0, finalized |-> 0,
               completed |-> 0]

\* ---------------------------------------------------------------- get_attachment()
\* a rule that does not look at the erroneous counts
amphitelic_CorrectOnly(s) == s[1] > 0 /\ s[2] > 0

\* lines 584-586
amphitelic(s) == s[1] > 0 /\ s[2] > 0 /\ s[3] = 0 /\ s[4] = 0

\* a rule that forgets the last count
monotelic_ThreeCounts(s) == s[1] > 0 /\ s[2] = 0 /\ s[3] = 0

\* lines 588-590
monotelic(s) == s[1] > 0 /\ s[2] = 0 /\ s[3] = 0 /\ s[4] = 0

\* a rule with the last two indices exchanged
syntelic_Exchanged(s) == s[1] > 0 /\ s[2] = 0 /\ s[3] > 0 /\ s[4] = 0

\* lines 592-594
syntelic(s) == s[1] > 0 /\ s[2] = 0 /\ s[3] = 0 /\ s[4] > 0

\* a rule that asks for one side only
merotelic_OneSide(s) == s[1] > 0 /\ s[2] = 0 /\ s[3] > 0

\* lines 596-597
merotelic(s) == s[1] > 0 /\ s[3] > 0

\* lines 599-601
unattached(s) == s[1] = 0 /\ s[2] = 0 /\ s[3] = 0 /\ s[4] = 0

\* a permutation that leaves the last two counts in place
permuted_state_Half(s) == << s[2], s[1], s[3], s[4] >>

\* line 603: [state[1], state[0], state[3], state[2]]
permuted_state(s) == << s[2], s[1], s[4], s[3] >>

\* lines 605-616: the number of the first rule that holds
get_attachment(s) ==
    IF amphitelic(s) \/ amphitelic(permuted_state(s)) THEN 0
    ELSE IF monotelic(s) \/ monotelic(permuted_state(s)) THEN 1
    ELSE IF syntelic(s) \/ syntelic(permuted_state(s)) THEN 2
    ELSE IF merotelic(s) \/ merotelic(permuted_state(s)) THEN 3
    ELSE IF unattached(s) \/ unattached(permuted_state(s)) THEN 4
    ELSE 5

\* lines 622-624
get_attachment_names ==
    << "amphitelic", "monotelic", "syntelic", "merotelic", "unattached", "error" >>

\* a caller hands a state vector to get_attachment()
InitClassify ==
    /\ Constructed
    /\ NoGenerators
    /\ state \in Vectors
    /\ label = "none"

\* lines 573-616: one call, named by get_attachment_names()
Classify ==
    /\ label = "none"
    /\ label' = get_attachment_names[get_attachment(state) + 1]
    /\ UNCHANGED state

\* the caller goes on to another state vector
NextVector ==
    /\ label # "none"
    /\ \E v \in Vectors : state' = v
    /\ label' = "none"

NextClassify ==
    \/ Classify /\ UNCHANGED << driver, generators >>
    \/ NextVector /\ UNCHANGED << driver, generators >>

SpecClassify == InitClassify /\ [][NextClassify]_vars

\* ---------------------------------------------------------------- get_random_state()
\* np.random.RandomState(): a generator seeded by the system, no draw made
FreshStates == {<< sd, 0 >> : sd \in Seeds}

\* a get_random_state() that never sets the saved state
ReusedState_Fresh(fresh) == fresh

\* lines 197-202: the state of the generator that get_random_state() returns
ReusedState(fresh) == IF RANDOM_STATE = NoneArg THEN fresh ELSE RANDOM_STATE[1]

\* lines 198-199: the class attribute after get_random_state()
SavedState(fresh) == IF RANDOM_STATE = NoneArg THEN Some(fresh) ELSE RANDOM_STATE

\* the draws made so far by the generators of the instances made with
\* keep_same_random_seed
RECURSIVE DrawsOfKept(_)
DrawsOfKept(n) ==
    IF n = 0 THEN 0
    ELSE (IF prng[n] # NoneArg /\ rnd[n].keep THEN prng[n][1][2] ELSE 0)
         + DrawsOfKept(n - 1)

\* lines 164-167: __init__ makes the generator of instance i
Construct(i, keep_same_random_seed) ==
    /\ prng[i] = NoneArg
    /\ \A j \in Instances : j < i => prng[j] # NoneArg
    /\ \E fresh \in FreshStates :
          LET g == IF keep_same_random_seed THEN ReusedState(fresh) ELSE fresh IN
          /\ prng' = [prng EXCEPT ![i] = Some(g)]
          /\ RANDOM_STATE' = IF keep_same_random_seed THEN SavedState(fresh)
                                                      ELSE RANDOM_STATE
          /\ rnd' = [rnd EXCEPT ![i] = [keep |-> keep_same_random_seed,
                                        start |-> Some(g),
                                        before |-> DrawsOfKept(MaxInst)]]

\* the collaborator draws a number from the generator of instance i
Draw(i) ==
    /\ prng[i] # NoneArg
    /\ prng[i][1][2] < MaxDraws
    /\ prng' = [prng EXCEPT ![i] = Some(<< prng[i][1][1], prng[i][1][2] + 1 >>)]
    /\ UNCHANGED << RANDOM_STATE, rnd >>

InitRandom ==
    /\ Constructed
    /\ NoClassification
    /\ NoGenerators

NextRandom ==
    \/ \E i \in Instances, k \in BOOLEAN :
          Construct(i, k) /\ UNCHANGED << driver, classifier >>
    \/ \E i \in Instances : Draw(i) /\ UNCHANGED << driver, classifier >>

SpecRandom == InitRandom /\ [][NextRandom]_vars

\* ---------------------------------------------------------------- claims
\* what simul() has when the run is over
Completed == hist.completed >= 1
\* the positions of simul() inside the loop
InLoop == pc \in {"ablation", "anaphase", "one_step"}
\* the time of the current time point
Now == time_point * params.dt
\* the merotelic lines of the report
MeroLines == {i \in 1 .. Len(report) : report[i].kind = "merotelic"}

\* C1: once a run has completed simulation_done is true, and every later
\* call of simul(), whatever its ablation arguments, raises
\* SimulationAlreadyDone and changes nothing else: no step is executed.
C1_SecondRunFails ==
    /\ [](Completed => (simulation_done /\ pc = "idle" /\ hist.completed = 1))
    /\ [][Completed =>
            /\ raised' = TRUE
            /\ UNCHANGED << params, span, num_steps, anaphase, simulation_done,
                            spbL, spbR, plugsites, A0_mat, B_mat, report,
                            delay, pc, time_point, ablat, ablat_pos, kappa_c,
                            log_anaphase_onset, ret, hist >>]_vars

\* C1 witness: a second call was made after a completed run, and raised
C1_Witness == Completed /\ raised /\ Len(hist.one_step) >= 1

\* C2: once KD.anaphase is true, a call of the anaphase test returns true
\* and writes nothing: delay, kappa_c, the matrix of calc_B and the report
\* stay as they are, so each onset effect happens at most once in a run.
C2_LatchIdempotent ==
    /\ [][(pc = "anaphase" /\ anaphase) =>
            /\ ret' = TRUE
            /\ anaphase' = TRUE
            /\ UNCHANGED << delay, params, B_mat, report, hist >>]_vars
    /\ [](/\ hist.delay_writes <= 1
          /\ hist.kappa_zeroed <= 1
          /\ hist.calc_B <= 1
          /\ Cardinality(MeroLines) <= 1)

\* C2 witness: the test ran at a time point after the one of the onset
C2_Witness ==
    /\ pc = "one_step" /\ anaphase /\ ret
    /\ hist.onsets = 1
    /\ delay < Now - int(params.t_A)

C5_NumStepsCalls ==
    /\ num_steps * params.dt <= span
    /\ span < (num_steps + 1) * params.dt
    /\ Completed => Len(hist.one_step) = num_steps

\* C5 (amended): num_steps is floor(span/dt), and a completed run has made
\* exactly num_steps - 1 calls of one_step, none when num_steps <= 1.
C5_NumStepsMinusOne ==
    /\ num_steps * params.dt <= span
    /\ span < (num_steps + 1) * params.dt
    /\ Completed =>
         Len(hist.one_step) = (IF num_steps >= 1 THEN num_steps - 1 ELSE 0)

\* C5 witness: a completed run of three steps has made two calls
C5_Witness == Completed /\ num_steps = 3 /\ Len(hist.one_step) = 2

\* C6: the time points passed to one_step are 1, 2, ... in increasing order,
\* each once and none skipped, never 0, and a completed run has passed all
\* of 1 .. num_steps - 1.
C6_TimePointsInOrder ==
    /\ \A i \in 1 .. Len(hist.one_step) : hist.one_step[i] = i
    /\ \A i \in 1 .. Len(hist.one_step) : i <= num_steps - 1
    /\ Completed => \A t \in 1 .. (num_steps - 1) :
                        \E i \in 1 .. Len(hist.one_step) : hist.one_step[i] = t
    /\ pc = "one_step" => Len(hist.one_step) = time_point - 1

\* C6 witness: both time points of a run of three steps were passed
C6_Witness == Completed /\ hist.one_step = << 1, 2 >>

\* C7: when a run has completed params['kappa_c'] is the value it had when
\* simul() was entered, with or without an onset; from the onset to the
\* end of the loop the live value is 0.
C7_KappaRestored ==
    /\ Completed => (params.kappa_c = hist.kappa_entry /\ params.kappa_c \in KappaVals)
    /\ ((InLoop \/ pc = "finish") /\ anaphase) => params.kappa_c = 0
    /\ ((InLoop \/ pc = "finish") /\ ~anaphase) => params.kappa_c = hist.kappa_entry

\* C7 witness: a completed run with an onset holds the entry value again
C7_Witness ==
    /\ Completed /\ anaphase /\ B_mat = 0
    /\ params.kappa_c # 0 /\ params.kappa_c = hist.kappa_entry

\* the beam of the ablation that is due
Beam == IF ablat_pos = NoneArg THEN spbR ELSE ablat_pos[1]
\* an ablation is about to be made
AblationAt == pc = "ablation" /\ ablat = << time_point >>
\* the plug sites on the far side of the beam from their pole
FarSide == {s \in all_plugsites :
              \/ plugsites[s].pos > Beam /\ plugsites[s].plug_state = -1
              \/ plugsites[s].pos < Beam /\ plugsites[s].plug_state = 1}

Hit == hist.ablations - hist.warnings >= 1

\* C10: after an ablation that hit, Fmz, k_a and k_d0 are 0 at every later
\* point of the run and after it; the time-invariant matrix was recomputed
\* once, from the zeroed parameters; the end of the run restores kappa_c only.
C10_AblatedForGood ==
    /\ Hit => /\ params.Fmz = 0 /\ params.k_a = 0 /\ params.k_d0 = 0
              /\ A0_mat = << 0, 0, 0 >>
              /\ hist.time_invariantA = 1
    /\ ~Hit => /\ params.Fmz = 1 /\ params.k_a = 1 /\ params.k_d0 = 1
               /\ hist.time_invariantA = 0
    /\ (Hit /\ Completed) => params.kappa_c = hist.kappa_entry

\* C10 witness: a run with a hit and an onset has completed
C10_Witness ==
    /\ Completed /\ Hit /\ anaphase
    /\ params.k_d0 = 0 /\ params.kappa_c # 0
    /\ Len(hist.one_step) = 2 /\ ablat = << 1 >>

\* the plug sites on the far side of a beam at b from their pole
FarSideOf(b) == {s \in all_plugsites :
                   \/ plugsites[s].pos > b /\ plugsites[s].plug_state = -1
                   \/ plugsites[s].pos < b /\ plugsites[s].plug_state = 1}
\* what an ablation with the beam at b does
AblatedAt(b) ==
    /\ plugsites' = [s \in all_plugsites |->
                       IF s \in FarSideOf(b)
                       THEN [plugsites[s] EXCEPT !.plug_state = 0]
                       ELSE plugsites[s]]
    /\ hist'.set_plug_state =
         hist.set_plug_state \cup {<< s, 0, time_point >> : s \in FarSideOf(b)}
    /\ hist'.warnings = hist.warnings
    /\ hist'.time_invariantA = hist.time_invariantA + 1

\* C11 as stated: when simul() is called with ablat and without ablat_pos,
\* the ablation is the one of a beam at spbR.pos: after it no plug site left
\* of the right pole is attached to the right pole.
C11_DefaultIsRightPole ==
    (pc = "anaphase" /\ ablat = << time_point >> /\ ~hist.pos_given) =>
        \A s \in all_plugsites :
            plugsites[s].pos < spbR => plugsites[s].plug_state # 1

\* C11 (amended): when simul() is called with ablat and without ablat_pos,
\* the ablation is made with the beam at 0, the default of ablat_pos; the
\* beam is at spbR.pos only when ablat_pos is passed as None.
C11_DefaultIsZero ==
    /\ [][(AblationAt /\ ~hist.pos_given) => AblatedAt(0)]_vars
    /\ [][(AblationAt /\ ablat_pos = << >>) => AblatedAt(spbR)]_vars

\* C11 witness: an ablation without ablat_pos has just cut at 0: it detached
\* a plug site and left one attached to the right pole, right of the centre
C11_Witness ==
    /\ pc = "anaphase" /\ ablat = << time_point >> /\ ~hist.pos_given
    /\ hist.set_plug_state # {}
    /\ \E s \in all_plugsites :
          plugsites[s].pos = 1 /\ plugsites[s].plug_state = 1

\* a get_attachment() call has returned
Classified == label # "none"
\* the vector with the two sides exchanged
Mirror(v) == << v[2], v[1], v[4], v[3] >>
\* the five rules as the documentation lists them, on one vector
Rule(k, v) ==
    CASE k = 1 -> v[1] > 0 /\ v[2] > 0 /\ v[3] = 0 /\ v[4] = 0
      [] k = 2 -> v[1] > 0 /\ v[2] = 0 /\ v[3] = 0 /\ v[4] = 0
      [] k = 3 -> v[1] > 0 /\ v[2] = 0 /\ v[3] = 0 /\ v[4] > 0
      [] k = 4 -> v[1] > 0 /\ v[3] > 0
      [] k = 5 -> v[1] = 0 /\ v[2] = 0 /\ v[3] = 0 /\ v[4] = 0
\* a rule holds on the vector or on its mirror
SymRule(k, v) == Rule(k, v) \/ Rule(k, Mirror(v))
RuleNames == << "amphitelic", "monotelic", "syntelic", "merotelic", "unattached" >>

\* C12: the classifier gives a vector [a,b,c,d] the label it gives [b,a,d,c].
C12_Symmetric ==
    Classified =>
        label = get_attachment_names[get_attachment(Mirror(state)) + 1]

\* C12 witness: a vector that is not its own mirror has been classified
C12_Witness == Classified /\ state = << 2, 0, 0, 3 >> /\ label = "syntelic"

\* C13: the classifier returns the label of the first rule, in the order
\* amphitelic, monotelic, syntelic, merotelic, unattached, that holds on the
\* vector or on its mirror, and "error" when none does; [2,3,0,0] is
\* amphitelic, [2,0,0,0] monotelic, [2,0,0,3] syntelic, [2,0,1,0] merotelic
\* and [0,0,0,0] unattached.
C13_FirstRuleWins ==
    Classified =>
        /\ \A k \in 1 .. 5 :
             (SymRule(k, state) /\ \A j \in 1 .. (k - 1) : ~SymRule(j, state))
                => label = RuleNames[k]
        /\ (\A k \in 1 .. 5 : ~SymRule(k, state)) => label = "error"
        /\ state = << 2, 3, 0, 0 >> => label = "amphitelic"
        /\ state = << 2, 0, 0, 0 >> => label = "monotelic"
        /\ state = << 2, 0, 0, 3 >> => label = "syntelic"
        /\ state = << 2, 0, 1, 0 >> => label = "merotelic"
        /\ state = << 0, 0, 0, 0 >> => label = "unattached"

\* C13 witness: a rule that holds on the mirror only has given the label
C13_Witness ==
    /\ Classified /\ state = << 0, 2, 1, 3 >> /\ label = "merotelic"
    /\ ~Rule(4, state)

\* C14 as stated: [0,1,1,0] and its mirror [1,0,0,1] match no rule and the
\* classifier returns "error" for it
C14_IsError ==
    (Classified /\ state = << 0, 1, 1, 0 >>) =>
        /\ \A k \in 1 .. 5 : ~Rule(k, state) /\ ~Rule(k, Mirror(state))
        /\ label = "error"

\* C14 (amended): [0,1,1,0] matches none of the five rules, but its mirror
\* [1,0,0,1] matches the syntelic rule, and the classifier returns
\* "syntelic" for it.
C14_IsSyntelic ==
    (Classified /\ state = << 0, 1, 1, 0 >>) =>
        /\ \A k \in 1 .. 5 : ~Rule(k, state)
        /\ Mirror(state) = << 1, 0, 0, 1 >>
        /\ \A k \in 1 .. 5 : Rule(k, Mirror(state)) <=> k = 3
        /\ label = "syntelic"

\* C14 witness: [0,1,1,0] has been classified
C14_Witness == Classified /\ state = << 0, 1, 1, 0 >> /\ label # "error"

\* C20: the classifier returns "error" exactly for the vectors with no
\* correct attachment and at least one erroneous one.
C20_ErrorIff ==
    Classified =>
        (label = "error" <=>
            (state[1] = 0 /\ state[2] = 0 /\ (state[3] > 0 \/ state[4] > 0)))

\* C20 witness: a vector with erroneous attachments only is an error
C20_Witness == Classified /\ state = << 0, 0, 2, 1 >> /\ label = "error"

\* every centromere of every chromosome has an attached plug site
AllAttached == \A s \in all_plugsites : plugsites[s].plug_state # 0
\* the anaphase test is about to run past the threshold, anaphase not begun
TestDue == pc = "anaphase" /\ ~anaphase /\ Now >= params.t_A \div TADen

Kept == {i \in Instances : prng[i] # << >> /\ rnd[i].keep}

\* C16 as stated: the state a reused-seed generator starts from reflects the
\* draws already made by the earlier instances of that mode
C16_StartReflectsDraws ==
    \A i \in Kept : rnd[i].start[1][2] = rnd[i].before

\* C16 (amended): every reused-seed instance gets a generator of its own
\* that starts from the state saved by the first such instance, whatever
\* the earlier instances have drawn; the saved state is set once and no
\* draw advances it.
C16_StartFromSaved ==
    /\ [](\A i \in Kept : /\ RANDOM_STATE # << >>
                          /\ rnd[i].start = RANDOM_STATE
                          /\ rnd[i].start[1][2] = 0)
    /\ [](\A i, j \in Kept : rnd[i].start = rnd[j].start)
    /\ [][RANDOM_STATE # << >> => RANDOM_STATE' = RANDOM_STATE]_vars

\* C16 witness: a reused-seed instance made after draws of an earlier one
C16_Witness ==
    \E i, j \in Kept :
        /\ i < j
        /\ rnd[j].before > 0
        /\ rnd[j].start = rnd[i].start
        /\ prng[i][1][2] > 0

\* the time points the loop of a run visits
LoopPoints == 1 .. (num_steps - 1)
\* the plug sites detached by an ablation at the current time point
CutNow == {s \in all_plugsites : << s, 0, time_point >> \in hist.set_plug_state}

\* C17: inside a time point the driver goes from the ablation, made if and
\* only if the ablation time equals the time point, to the anaphase test and
\* then to one_step; the checkpoint at the ablation time point sees the plug
\* states left by the ablation; an ablation is made at most once in a run
\* and only if the ablation time is one of 1 .. num_steps-1.
C17_OrderInTimePoint ==
    /\ [][/\ pc = "ablation" =>
               /\ pc' = "anaphase" /\ time_point' = time_point
               /\ hist'.ablations =
                    hist.ablations + (IF ablat = << time_point >> THEN 1 ELSE 0)
               /\ hist'.onsets = hist.onsets
               /\ hist'.one_step = hist.one_step
          /\ pc = "anaphase" =>
               /\ pc' = "one_step" /\ time_point' = time_point
               /\ hist'.ablations = hist.ablations
               /\ hist'.one_step = hist.one_step
          /\ pc = "one_step" =>
               /\ pc' \in {"ablation", "finish"}
               /\ hist'.one_step = Append(hist.one_step, time_point)
               /\ hist'.ablations = hist.ablations
               /\ hist'.onsets = hist.onsets
          /\ pc \in {"idle", "finish"} =>
               /\ hist'.ablations = hist.ablations
               /\ hist'.onsets = hist.onsets
               /\ hist'.one_step = hist.one_step]_vars
    /\ [][(pc = "anaphase" /\ CutNow # {} /\ params.sac # 0) =>
              /\ UNCHANGED << anaphase, delay, plugsites >>
              /\ hist'.onsets = hist.onsets]_vars
    /\ [][(pc = "anaphase" /\ ~anaphase /\ anaphase') =>
              (params.sac = 0 \/ \A s \in all_plugsites : plugsites[s].plug_state # 0)]_vars
    /\ [](hist.ablations <= 1)
    /\ [](hist.ablations = 1 =>
              \E t \in LoopPoints : ablat = << t >> /\ t <= time_point)
    /\ [](Completed =>
              (hist.ablations = 1 <=> \E t \in LoopPoints : ablat = << t >>))

\* C17 witness: past the threshold with the checkpoint enabled, the ablation
\* of this time point has detached one of two attached centromeres and the
\* anaphase test that followed did not fire
C17_Witness ==
    /\ pc = "one_step" /\ ablat = << time_point >> /\ hist.ablations = 1
    /\ Cardinality(CutNow) = 1
    /\ \A s \in all_plugsites \ CutNow : plugsites[s].plug_state # 0
    /\ params.sac # 0 /\ Now >= params.t_A \div TADen
    /\ ~anaphase /\ hist.onsets = 0

\* the delay lines of the report
DelayLines == {i \in 1 .. Len(report) : report[i].kind = "delay"}
\* the erroneous attachments: cen_A sites bound to the other pole (-1) and
\* cen_B sites bound to the other pole (+1)
MeroCount ==
    Cardinality({s \in all_plugsites :
                    \/ s[2] = "A" /\ plugsites[s].plug_state = -1
                    \/ s[2] = "B" /\ plugsites[s].plug_state = 1})

\* C18: the report only grows by appends; a merotelic line is appended only
\* at anaphase onset and only if the merotelic count at that moment is not
\* zero, it carries that count and there is at most one in a run; exactly
\* one delay line is appended after the loop and is the last entry of the
\* report of a completed run.
C18_ReportShape ==
    /\ [][/\ Len(report') >= Len(report)
          /\ SubSeq(report', 1, Len(report)) = report]_vars
    /\ [][(pc = "anaphase" /\ ~anaphase /\ anaphase') =>
             report' = IF MeroCount # 0
                       THEN Append(report, [kind |-> "merotelic", val |-> MeroCount])
                       ELSE report]_vars
    /\ [][(pc = "finish") =>
             report' = Append(report, [kind |-> "delay", val |-> delay])]_vars
    /\ [][(~(pc = "finish") /\ ~(pc = "anaphase" /\ ~anaphase /\ anaphase')) =>
             report' = report]_vars
    /\ [](Cardinality(MeroLines) <= 1)
    /\ [](MeroLines # {} => anaphase /\ hist.onsets = 1)
    /\ [](\A i \in MeroLines : report[i].val > 0)
    /\ [](Completed => /\ Cardinality(DelayLines) = 1
                       /\ DelayLines = {Len(report)}
                       /\ Len(report) = 1 + Cardinality(MeroLines))
    /\ [](~Completed => DelayLines = {})

\* C18 witness: a completed run whose onset found two merotelic attachments
C18_Witness ==
    /\ Completed /\ Len(report) = 2
    /\ report[1] = [kind |-> "merotelic", val |-> 2]
    /\ report[2].kind = "delay" /\ report[2].val = delay

\* the threshold the anaphase test compares with: int(params['t_A'])
Threshold == params.t_A \div TADen

CodeRule(k, v) ==
    CASE k = 1 -> amphitelic(v)
      [] k = 2 -> monotelic(v)
      [] k = 3 -> syntelic(v)
      [] k = 4 -> merotelic(v)
      [] k = 5 -> unattached(v)
\* the symmetrised rules that hold on a vector
Satisfied(v) ==
    {k \in 1 .. 5 : CodeRule(k, v) \/ CodeRule(k, << v[2], v[1], v[4], v[3] >>)}
\* the orders in which the five rules can be tried
Orders == {o \in [1 .. 5 -> 1 .. 5] : \A i, j \in 1 .. 5 : o[i] = o[j] => i = j}
\* the label of the first satisfied rule when the rules are tried in order o
FirstIn(o, v) ==
    LET hits == {i \in 1 .. 5 : o[i] \in Satisfied(v)} IN
    IF hits = {} THEN "error"
    ELSE RuleNames[o[CHOOSE i \in hits : \A j \in hits : i <= j]]

\* C21: on every vector of non-negative counts at most one of the five
\* symmetrised rules holds, so the label the classifier returns is the one
\* it would return with the rules tried in any other order.
C21_OrderIrrelevant ==
    Classified =>
        /\ Cardinality(Satisfied(state)) <= 1
        /\ \A o \in Orders : label = FirstIn(o, state)

\* C21 witness: a vector on which one rule holds, the fourth of the chain,
\* has been given that rule's label
C21_Witness ==
    /\ Classified /\ state = << 3, 1, 2, 0 >> /\ label = "merotelic"
    /\ Satisfied(state) = {4}

====
